---- MODULE Spec2Model ----
(***************************************************************************)
(* Model of the calendar event pipeline of crush-yard-ops:                 *)
(*   src/lib/utils/calendar-transforms.ts  (transformers, detectConflicts, *)
(*   buildCalendarEvents) over the types of src/lib/types/calendar.ts.     *)
(*                                                                         *)
(* The pipeline is a set of pure functions.  Each function is an operator  *)
(* computed the way the code computes it; each specification below draws   *)
(* the function's inputs in Init and applies the function in one action.   *)
(*   SpecDetect    : detectConflicts on an arbitrary list of events        *)
(*   SpecOrder     : detection and filtering composed in both orders       *)
(*   SpecTransform : one raw row through its transformer                   *)
(*   Spec          : buildCalendarEvents on four collections of raw rows   *)
(*   SpecStatus, SpecClock, SpecIdentity : the status mappings, the        *)
(*   minutes conversion and the composite ids                              *)
(* and of three callers of the pipeline:                                   *)
(*   SpecConflicts : the conflict groups of app/api/conflicts/route.ts     *)
(*   SpecShell     : navigation and fetches of CalendarShell.tsx           *)
(*   SpecSync      : a sync run of app/api/cron/sync/route.ts              *)
(***************************************************************************)
EXTENDS Integers, Sequences, FiniteSets, TLC

VARIABLES pc, events, eventsAfter, result, filters, swapped, row, produced, crReservations, crEventRows, tsEvents, tsLeads, all, output, thrown,
          currentDate, viewMode, dates, inFlight, issued, fetchFailed,
          chunkIndex, courtReservePc, page, tripleseatPc, sync_log, failedSources

\* the state of CalendarShell: its useState cells, the fetches under way, the
\* number of fetches started and whether one of them failed
shellVars == <<currentDate, viewMode, dates, inFlight, issued, fetchFailed>>

\* the state of a sync run: the position of pullCourtReserve and of
\* pullTripleseatEvents, the sync_log table and the sources a request of which failed
syncVars == <<chunkIndex, courtReservePc, page, tripleseatPc, sync_log, failedSources>>

vars == <<pc, events, eventsAfter, result, filters, swapped, row, produced, crReservations, crEventRows, tsEvents, tsLeads, all, output, thrown, shellVars, syncVars>>

\* no CalendarShell is mounted
ShellUnused ==
    /\ currentDate = 0
    /\ viewMode = "day"
    /\ dates = <<>>
    /\ inFlight = {}
    /\ issued = 0
    /\ fetchFailed = FALSE

\* no sync run is under way
SyncUnused ==
    /\ chunkIndex = <<>>
    /\ courtReservePc = <<>>
    /\ page = <<>>
    /\ tripleseatPc = <<>>
    /\ sync_log = <<>>
    /\ failedSources = {}

(***************************************************************************)
(* Bounds of the model.                                                    *)
(***************************************************************************)
\* longest list of events handed to detectConflicts
MaxEvents == 3

(***************************************************************************)
(* Types of src/lib/types/calendar.ts.                                     *)
(***************************************************************************)
CalendarEventSource == {"courtreserve", "courtreserve_event", "tripleseat_event", "tripleseat_lead"}

CalendarEventStatus == {"confirmed", "tentative", "prospect", "cancelled"}

\* Array.prototype.includes
Includes(arr, x) == \E k \in 1..Len(arr) : arr[k] = x

\* Array.prototype.some(id => other.includes(id))
SomeIncluded(arr, other) == \E k \in 1..Len(arr) : Includes(other, arr[k])

(***************************************************************************)
(* Values of the raw rows.                                                 *)
(*                                                                         *)
(* A nullable field is a sequence: <<>> is null, <<v>> holds v.            *)
(* A string the code inspects character by character (a status) is the     *)
(* sequence of its characters.                                             *)
(* A CourtReserve timestamp is a local string "<date>T<hh>:<mm>:00<zone>": *)
(* its date, whether it holds a two-digit "hh:mm" pair at all, the digits  *)
(* and its trailing zone marker ("", "Z" or "+00:00").                     *)
(* A Tripleseat timestamp is a string naming a UTC instant: whether        *)
(* new Date() can parse it, and the instant as a day number and a minute   *)
(* of that UTC day.                                                        *)
(***************************************************************************)
Null == <<>>

Some(v) == <<v>>

IsNull(x) == x = <<>>

\* Day numbers of the civil dates of the model
CivilDate(day) ==
    CASE day = 0 -> "2026-03-06"
      [] day = 1 -> "2026-03-07"
      [] day = 2 -> "2026-03-08"
      [] day = 3 -> "2026-03-09"
      [] OTHER   -> "2026-03-10"

LocalString(date, hh, mm, zone) == [null |-> FALSE, date |-> date, clock |-> TRUE, hh |-> hh, mm |-> mm, zone |-> zone]

\* a non-empty string without any "hh:mm" pair, such as "2026-03-07"
ClocklessString(date) == [null |-> FALSE, date |-> date, clock |-> FALSE, hh |-> 0, mm |-> 0, zone |-> ""]

NullString == [null |-> TRUE, date |-> "", clock |-> FALSE, hh |-> 0, mm |-> 0, zone |-> ""]

UtcString(day, minute) == [null |-> FALSE, valid |-> TRUE, day |-> day, minute |-> minute]

\* a non-empty string that new Date() cannot parse, such as "TBD"
UnparseableUtcString == [null |-> FALSE, valid |-> FALSE, day |-> 0, minute |-> 0]

NullUtcString == [null |-> TRUE, valid |-> FALSE, day |-> 0, minute |-> 0]

(***************************************************************************)
(* Text of the values a template literal joins (lines 177, 235, 287, 339): *)
(* a text is the sequence of its characters.                               *)
(***************************************************************************)
DigitChars == <<"0", "1", "2", "3", "4", "5", "6", "7", "8", "9">>

\* String(n) of a non-negative integer
RECURSIVE NumberText(_)
NumberText(n) == IF n < 10 THEN <<DigitChars[n + 1]>> ELSE NumberText(n \div 10) \o <<DigitChars[(n % 10) + 1]>>

TwoDigits(n) == <<DigitChars[(n \div 10) + 1], DigitChars[(n % 10) + 1]>>

\* the characters of a civil date of the model, "2026-03-DD"
DateText(date) ==
    <<"2", "0", "2", "6", "-", "0", "3", "-">> \o TwoDigits(6 + (CHOOSE d \in 0..4 : CivilDate(d) = date))

ZoneText(zone) ==
    CASE zone = "Z"      -> <<"Z">>
      [] zone = "+00:00" -> <<"+", "0", "0", ":", "0", "0">>
      [] zone = "-05:00" -> <<"-", "0", "5", ":", "0", "0">>
      [] OTHER           -> <<>>

\* the characters of a local string: "<date>T<hh>:<mm>:00<zone>", or the date alone
LocalText(str) ==
    DateText(str.date)
        \o (IF str.clock THEN <<"T">> \o TwoDigits(str.hh) \o <<":">> \o TwoDigits(str.mm) \o <<":", "0", "0">> ELSE <<>>)
        \o ZoneText(str.zone)

\* A clock text: "h:mm AM" / "h:mm PM" (period "AM" or "PM"), or 24-hour
\* "HH:MM" (period "")
ClockText(h, m, period) == [h |-> h, m |-> m, period |-> period]

(***************************************************************************)
(* Timezone conversion, calendar-transforms.ts:24-48.                      *)
(* America/New_York in March 2026: UTC-5 until 2026-03-08T07:00Z (2:00 AM  *)
(* local), UTC-4 from then on.                                             *)
(***************************************************************************)
\* minutes from 2026-03-06T00:00Z
UtcMinutes(u) == u.day * 1440 + u.minute

\* The zone without daylight time: five hours behind UTC at every instant
EasternOffsetStandardOnly(u) == 5 * 60

\* the zone's offset in force at the instant, in minutes behind UTC
EasternOffset(u) == IF UtcMinutes(u) < 2 * 1440 + 7 * 60 THEN 5 * 60 ELSE 4 * 60

EasternMinutes(u) == UtcMinutes(u) - EasternOffset(u)

\* lines 37: new Date(utcString) is an Invalid Date, which
\* Intl.DateTimeFormat.prototype.format rejects with a RangeError
FormatThrows(u) == ~u.valid

\* lines 31-38: hour 'numeric', minute '2-digit', hour12 -> "h:mm AM|PM"
toEasternHHMM(u) ==
    LET minuteOfDay == EasternMinutes(u) % 1440
        h24 == minuteOfDay \div 60
    IN  ClockText(IF h24 % 12 = 0 THEN 12 ELSE h24 % 12, minuteOfDay % 60, IF h24 < 12 THEN "AM" ELSE "PM")

\* lines 44-48
toEasternDate(u) == CivilDate(EasternMinutes(u) \div 1440)

(***************************************************************************)
(* Time math, calendar-transforms.ts:50-89.                                *)
(***************************************************************************)
\* toMinutes without line 62: 12 AM is not turned into hour 0
toMinutesNoMidnightRule(timeStr) ==
    IF timeStr.period # ""
    THEN LET h0 == timeStr.h
             h2 == IF timeStr.period = "PM" /\ h0 # 12 THEN h0 + 12 ELSE h0
         IN  h2 * 60 + timeStr.m
    ELSE timeStr.h * 60 + timeStr.m

\* lines 56-70
toMinutes(timeStr) ==
    IF timeStr.period # ""
    THEN LET h0 == timeStr.h
             h1 == IF timeStr.period = "AM" /\ h0 = 12 THEN 0 ELSE h0
             h2 == IF timeStr.period = "PM" /\ h1 # 12 THEN h1 + 12 ELSE h1
         IN  h2 * 60 + timeStr.m
    ELSE timeStr.h * 60 + timeStr.m

\* localToHHMM reading the digits as a UTC clock and converting to the zone
localToHHMMViaUtc(localString) ==
    IF ~localString.clock THEN ClockText(12, 0, "AM")
    ELSE LET minuteOfDay == (60 * localString.hh + localString.mm + 1440 - 5 * 60) % 1440
             h == minuteOfDay \div 60
             m == minuteOfDay % 60
         IN  IF h = 0 THEN ClockText(12, m, "AM")
             ELSE IF h < 12 THEN ClockText(h, m, "AM")
             ELSE IF h = 12 THEN ClockText(12, m, "PM")
             ELSE ClockText(h - 12, m, "PM")

\* lines 78-89
localToHHMM(localString) ==
    IF ~localString.clock THEN ClockText(12, 0, "AM")
    ELSE LET h == localString.hh
             m == localString.mm
         IN  IF h = 0 THEN ClockText(12, m, "AM")
             ELSE IF h < 12 THEN ClockText(h, m, "AM")
             ELSE IF h = 12 THEN ClockText(12, m, "PM")
             ELSE ClockText(h - 12, m, "PM")

(***************************************************************************)
(* Status mapping, calendar-transforms.ts:91-108.                          *)
(***************************************************************************)
UpperLetters == <<"A", "B", "C", "D", "E", "F", "G", "H", "I", "J", "K", "L", "M", "N", "O", "P", "Q", "R", "S", "T", "U", "V", "W", "X", "Y", "Z">>

LowerLetters == <<"a", "b", "c", "d", "e", "f", "g", "h", "i", "j", "k", "l", "m", "n", "o", "p", "q", "r", "s", "t", "u", "v", "w", "x", "y", "z">>

LetterIndex(letters, c) == CHOOSE i \in 1..Len(letters) : letters[i] = c

\* String.prototype.toLowerCase
toLowerCase(str) == [k \in 1..Len(str) |-> IF Includes(UpperLetters, str[k]) THEN LowerLetters[LetterIndex(UpperLetters, str[k])] ELSE str[k]]

\* String.prototype.toUpperCase
toUpperCase(str) == [k \in 1..Len(str) |-> IF Includes(LowerLetters, str[k]) THEN UpperLetters[LetterIndex(LowerLetters, str[k])] ELSE str[k]]

\* String.prototype.includes
StringIncludes(str, part) == \E i \in 0..(Len(str) - Len(part)) : SubSeq(str, i + 1, i + Len(part)) = part

\* mapCRStatus without the toLowerCase of line 95
mapCRStatusCaseSensitive(raw) ==
    IF IsNull(raw) \/ raw[1] = <<>> THEN "confirmed"
    ELSE IF StringIncludes(raw[1], <<"c", "a", "n", "c", "e", "l">>) THEN "cancelled"
    ELSE "confirmed"

\* mapTSEventStatus with includes in place of the switch on the whole string
mapTSEventStatusBySubstring(raw) ==
    IF IsNull(raw) THEN "prospect"
    ELSE LET up == toUpperCase(raw[1])
         IN  CASE StringIncludes(up, <<"D", "E", "F", "I", "N", "I", "T", "E">>) -> "confirmed"
               [] StringIncludes(up, <<"T", "E", "N", "T", "A", "T", "I", "V", "E">>) -> "tentative"
               [] StringIncludes(up, <<"P", "R", "O", "S", "P", "E", "C", "T">>) -> "prospect"
               [] StringIncludes(up, <<"C", "A", "N", "C", "E", "L", "L", "E", "D">>) -> "cancelled"
               [] StringIncludes(up, <<"L", "O", "S", "T">>) -> "cancelled"
               [] OTHER -> "prospect"

\* lines 93-97; !raw holds of null and of the empty string
mapCRStatus(raw) ==
    IF IsNull(raw) \/ raw[1] = <<>> THEN "confirmed"
    ELSE IF StringIncludes(toLowerCase(raw[1]), <<"c", "a", "n", "c", "e", "l">>) THEN "cancelled"
    ELSE "confirmed"

\* lines 99-108
mapTSEventStatus(raw) ==
    IF IsNull(raw) THEN "prospect"
    ELSE LET up == toUpperCase(raw[1])
         IN  CASE up = <<"D", "E", "F", "I", "N", "I", "T", "E">> -> "confirmed"
               [] up = <<"T", "E", "N", "T", "A", "T", "I", "V", "E">> -> "tentative"
               [] up = <<"P", "R", "O", "S", "P", "E", "C", "T">> -> "prospect"
               [] up = <<"C", "A", "N", "C", "E", "L", "L", "E", "D">> -> "cancelled"
               [] up = <<"L", "O", "S", "T">> -> "cancelled"
               [] OTHER -> "prospect"

(***************************************************************************)
(* detectConflicts, calendar-transforms.ts:122-152.                        *)
(***************************************************************************)
\* The copy of line 123 without the reset: ({ ...e })
KeepFlags(evs) == evs

\* line 123: events.map(e => ({ ...e, hasConflict: false }))
ResetFlags(evs) == [k \in 1..Len(evs) |-> [evs[k] EXCEPT !.hasConflict = FALSE]]

\* lines 136-138
SharedCourt(a, b) == SomeIncluded(a.courtMappingIds, b.courtMappingIds)

\* Overlaps with the first comparison only
OverlapsOneSided(a, b) == a.startMinutes < b.endMinutes

\* Overlaps with closed intervals: touching intervals count as overlapping
OverlapsClosed(a, b) == a.startMinutes <= b.endMinutes /\ a.endMinutes >= b.startMinutes

\* lines 141-142
Overlaps(a, b) == a.startMinutes < b.endMinutes /\ a.endMinutes > b.startMinutes

\* PairConflicts without the lead test of line 133
PairConflictsNoLeadTest(a, b) ==
    /\ ~(a.date # b.date)
    /\ ~(a.status = "prospect" \/ b.status = "prospect")
    /\ SharedCourt(a, b)
    /\ Overlaps(a, b)

\* lines 130-144: the pair (a, b) reaches the marking statements
PairConflicts(a, b) ==
    /\ ~(a.date # b.date)
    /\ ~(a.source = "tripleseat_lead" \/ b.source = "tripleseat_lead")
    /\ ~(a.status = "prospect" \/ b.status = "prospect")
    /\ SharedCourt(a, b)
    /\ Overlaps(a, b)

\* MarkPair without line 146: only the first event of the pair is marked
MarkFirstOnly(res, i, j) ==
    IF PairConflicts(res[i], res[j])
    THEN [res EXCEPT ![i].hasConflict = TRUE]
    ELSE res

\* lines 144-147: the body of the inner loop for the pair (i, j)
MarkPair(res, i, j) ==
    IF PairConflicts(res[i], res[j])
    THEN [res EXCEPT ![i].hasConflict = TRUE, ![j].hasConflict = TRUE]
    ELSE res

\* PairLoop comparing each event with its successor only
RECURSIVE PairLoopAdjacent(_, _, _)
PairLoopAdjacent(res, i, j) ==
    IF i >= Len(res) THEN res
    ELSE PairLoopAdjacent(MarkPair(res, i, i + 1), i + 1, i + 2)

\* lines 125-149: for i in 0..n-1, for j in i+1..n-1 (1-based here)
RECURSIVE PairLoop(_, _, _)
PairLoop(res, i, j) ==
    IF i > Len(res) THEN res
    ELSE IF j > Len(res) THEN PairLoop(res, i + 1, i + 2)
    ELSE PairLoop(MarkPair(res, i, j), i, j + 1)

\* lines 122-152
detectConflicts(evs) == PairLoop(ResetFlags(evs), 1, 2)

\* The caller's array if the flags were written to the argument's own events
ArgumentAliased(evs) == PairLoop(evs, 1, 2)

\* The caller's array after the call: line 123 copies every event before any
\* flag is written, so the argument keeps its contents.
ArgumentAfterDetect(evs) == evs

(***************************************************************************)
(* Transformers, calendar-transforms.ts:154-364.  A transformer yields     *)
(* [thrown, out]: out is <<>> for null and <<event>> for an event; thrown  *)
(* tells that an exception left the function instead.                      *)
(***************************************************************************)
NoEvent == [thrown |-> FALSE, out |-> <<>>]

Raised == [thrown |-> TRUE, out |-> <<>>]

Event(e) == [thrown |-> FALSE, out |-> <<e>>]

Min(S) == CHOOSE x \in S : \A y \in S : x <= y

\* Array.prototype.find over the indices passing the test: <<>> for undefined
FirstOf(arr, hits) == IF hits = {} THEN <<>> ELSE <<arr[Min(hits)]>>

\* lines 171, 231: courtMappings.find(m => m.id === id)
FindById(courtMappings, id) == FirstOf(courtMappings, {k \in 1..Len(courtMappings) : courtMappings[k].id = id})

\* lines 281, 333: courtMappings.find(m => m.tripleseat_room_id === roomId)
FindByRoom(courtMappings, roomId) == FirstOf(courtMappings, {k \in 1..Len(courtMappings) : courtMappings[k].tripleseat_room_id = Some(roomId)})

RECURSIVE Flatten(_)
Flatten(seqs) == IF seqs = <<>> THEN <<>> ELSE Head(seqs) \o Flatten(Tail(seqs))

\* The guard with < for <=: a zero-length span passes
RejectsSpanStrict(startMinutes, endMinutes) == endMinutes < startMinutes

\* lines 168, 224, 276, 328: if (endMinutes <= startMinutes) return null
RejectsSpan(startMinutes, endMinutes) == endMinutes <= startMinutes

\* lines 156-202
transformCRReservation(r, courtMappings) ==
    IF r.start_time.null \/ r.end_time.null \/ IsNull(r.reservation_date) THEN NoEvent
    ELSE LET startTime    == localToHHMM(r.start_time)
             endTime      == localToHHMM(r.end_time)
             startMinutes == toMinutes(startTime)
             endMinutes   == toMinutes(endTime)
             mapping      == IF IsNull(r.court_mapping_id) THEN <<>>
                             ELSE FindById(courtMappings, r.court_mapping_id[1])
             courtMappingIds == IF mapping # <<>> THEN <<mapping[1].id>> ELSE <<>>
         IN  IF RejectsSpan(startMinutes, endMinutes) THEN NoEvent
             ELSE Event([ id               |-> <<"c", "r", "-">> \o r.courtreserve_reservation_id,
                          originalRecordId |-> r.id,
                          source           |-> "courtreserve",
                          courtMappingIds  |-> courtMappingIds,
                          courtNumber      |-> IF mapping # <<>> THEN Some(mapping[1].court_number) ELSE Null,
                          isMultiCourt     |-> FALSE,
                          status           |-> mapCRStatus(r.status),
                          hasConflict      |-> FALSE,
                          date             |-> r.reservation_date[1],
                          startTime        |-> startTime,
                          endTime          |-> endTime,
                          startMinutes     |-> startMinutes,
                          endMinutes       |-> endMinutes,
                          durationMinutes  |-> endMinutes - startMinutes,
                          roomIds          |-> <<>> ])

\* lines 216-217: .replace(/[+-]\d{2}:\d{2}$/, '').replace('Z', '')
StripZone(localString) == [localString EXCEPT !.zone = ""]

\* Line 211 never taken
RawCanceledIgnored(e) == FALSE

\* line 211: the condition of if (e.is_canceled) return null
RawCanceled(e) == e.is_canceled

\* lines 206-260
transformCREvent(e, courtMappings) ==
    IF e.start_datetime.null \/ e.end_datetime.null THEN NoEvent
    ELSE IF RawCanceled(e) THEN NoEvent
    ELSE LET localStart   == StripZone(e.start_datetime)
             localEnd     == StripZone(e.end_datetime)
             startTime    == localToHHMM(localStart)
             endTime      == localToHHMM(localEnd)
             startMinutes == toMinutes(startTime)
             endMinutes   == toMinutes(endTime)
             courtMappingIds == IF IsNull(e.court_mapping_ids) THEN <<>> ELSE e.court_mapping_ids[1]
             firstMapping == IF Len(courtMappingIds) > 0
                             THEN FindById(courtMappings, courtMappingIds[1])
                             ELSE <<>>
         IN  IF RejectsSpan(startMinutes, endMinutes) THEN NoEvent
             ELSE Event([ id               |-> <<"c", "r", "-", "e", "v", "e", "n", "t", "-">> \o NumberText(e.courtreserve_event_id) \o <<"-">> \o LocalText(localStart),
                          originalRecordId |-> e.id,
                          source           |-> "courtreserve_event",
                          courtMappingIds  |-> courtMappingIds,
                          courtNumber      |-> IF firstMapping # <<>> THEN Some(firstMapping[1].court_number) ELSE Null,
                          isMultiCourt     |-> Len(courtMappingIds) > 1,
                          status           |-> "confirmed",
                          hasConflict      |-> FALSE,
                          date             |-> localStart.date,
                          startTime        |-> startTime,
                          endTime          |-> endTime,
                          startMinutes     |-> startMinutes,
                          endMinutes       |-> endMinutes,
                          durationMinutes  |-> endMinutes - startMinutes,
                          roomIds          |-> <<>> ])

\* The lookup of lines 280-282 giving nothing when one room id has no mapping
RoomMappingsAllOrNothing(room_ids, courtMappings) ==
    LET roomIds == IF IsNull(room_ids) THEN <<>> ELSE room_ids[1]
    IN  IF \E k \in 1..Len(roomIds) : FindByRoom(courtMappings, roomIds[k]) = <<>>
        THEN <<>>
        ELSE Flatten([k \in 1..Len(roomIds) |-> FindByRoom(courtMappings, roomIds[k])])

\* lines 280-282, 332-334: each room id looked up, the misses dropped
RoomMappings(room_ids, courtMappings) ==
    LET roomIds == IF IsNull(room_ids) THEN <<>> ELSE room_ids[1]
    IN  Flatten([k \in 1..Len(roomIds) |-> FindByRoom(courtMappings, roomIds[k])])

\* lines 264-312
transformTSEvent(e, courtMappings) ==
    IF e.event_start.null \/ e.event_end.null THEN NoEvent
    ELSE IF FormatThrows(e.event_start) \/ FormatThrows(e.event_end) THEN Raised
    ELSE LET startTime    == toEasternHHMM(e.event_start)
             endTime      == toEasternHHMM(e.event_end)
             startMinutes == toMinutes(startTime)
             endMinutes   == toMinutes(endTime)
             mappings     == RoomMappings(e.room_ids, courtMappings)
             courtMappingIds == [k \in 1..Len(mappings) |-> mappings[k].id]
         IN  IF RejectsSpan(startMinutes, endMinutes) THEN NoEvent
             ELSE Event([ id               |-> <<"t", "s", "-", "e", "v", "e", "n", "t", "-">> \o NumberText(e.tripleseat_event_id),
                          originalRecordId |-> e.id,
                          source           |-> "tripleseat_event",
                          courtMappingIds  |-> courtMappingIds,
                          courtNumber      |-> IF Len(mappings) = 1 THEN Some(mappings[1].court_number) ELSE Null,
                          isMultiCourt     |-> Len(courtMappingIds) > 1,
                          status           |-> mapTSEventStatus(e.status),
                          hasConflict      |-> FALSE,
                          date             |-> IF IsNull(e.event_date) THEN toEasternDate(e.event_start) ELSE e.event_date[1],
                          startTime        |-> startTime,
                          endTime          |-> endTime,
                          startMinutes     |-> startMinutes,
                          endMinutes       |-> endMinutes,
                          durationMinutes  |-> endMinutes - startMinutes,
                          roomIds          |-> IF IsNull(e.room_ids) THEN <<>> ELSE e.room_ids[1] ])

\* lines 316-364
transformTSLead(l, courtMappings) ==
    IF l.desired_start.null \/ l.desired_end.null THEN NoEvent
    ELSE IF FormatThrows(l.desired_start) \/ FormatThrows(l.desired_end) THEN Raised
    ELSE LET startTime    == toEasternHHMM(l.desired_start)
             endTime      == toEasternHHMM(l.desired_end)
             startMinutes == toMinutes(startTime)
             endMinutes   == toMinutes(endTime)
             mappings     == RoomMappings(l.room_ids, courtMappings)
             courtMappingIds == [k \in 1..Len(mappings) |-> mappings[k].id]
         IN  IF RejectsSpan(startMinutes, endMinutes) THEN NoEvent
             ELSE Event([ id               |-> <<"t", "s", "-", "l", "e", "a", "d", "-">> \o NumberText(l.tripleseat_lead_id),
                          originalRecordId |-> l.id,
                          source           |-> "tripleseat_lead",
                          courtMappingIds  |-> courtMappingIds,
                          courtNumber      |-> IF Len(mappings) = 1 THEN Some(mappings[1].court_number) ELSE Null,
                          isMultiCourt     |-> Len(courtMappingIds) > 1,
                          status           |-> "prospect",
                          hasConflict      |-> FALSE,
                          date             |-> IF IsNull(l.desired_date) THEN toEasternDate(l.desired_start) ELSE l.desired_date[1],
                          startTime        |-> startTime,
                          endTime          |-> endTime,
                          startMinutes     |-> startMinutes,
                          endMinutes       |-> endMinutes,
                          durationMinutes  |-> endMinutes - startMinutes,
                          roomIds          |-> IF IsNull(l.room_ids) THEN <<>> ELSE l.room_ids[1] ])

(***************************************************************************)
(* Inputs of SpecDetect: events as the transformers shape them, over a     *)
(* small domain of dates, courts and intervals, with any source, status    *)
(* and incoming flag.                                                      *)
(***************************************************************************)
\* 2026-03-08 is the day the facility's clocks go forward
Dates == {"2026-03-07", "2026-03-08"}

CourtLists == {<<"court-3">>, <<"court-4">>, <<"court-3", "court-4">>}

\* date and [start, end) in minutes: 13:00-14:00, 13:30-14:30 and 14:00-15:00 on
\* one day (an overlapping and a touching pair), 13:00-14:00 on the next
Slots == {<<"2026-03-07", 780, 840>>, <<"2026-03-07", 810, 870>>, <<"2026-03-07", 840, 900>>, <<"2026-03-08", 780, 840>>}

\* source and status
Kinds == {<<"courtreserve", "confirmed">>, <<"courtreserve", "cancelled">>, <<"tripleseat_event", "tentative">>, <<"tripleseat_event", "prospect">>, <<"tripleseat_lead", "confirmed">>}

MkEvent(kind, slot, courts, flag) ==
    [ source          |-> kind[1],
      status          |-> kind[2],
      courtMappingIds |-> courts,
      isMultiCourt    |-> Len(courts) > 1,
      date            |-> slot[1],
      startMinutes    |-> slot[2],
      endMinutes      |-> slot[3],
      durationMinutes |-> slot[3] - slot[2],
      hasConflict     |-> flag ]

EventPool == {MkEvent(k, s, c, f) : k \in Kinds, s \in Slots, c \in CourtLists, f \in BOOLEAN}

NoFilters == [present |-> FALSE, sources |-> {}, statuses |-> {}, courtIds |-> {}]

NoRow == [kind |-> "none"]

InitDetect ==
    /\ pc = "input"
    /\ ShellUnused
    /\ SyncUnused
    /\ \E n \in 0..MaxEvents : events \in [1..n -> EventPool]
    /\ eventsAfter = <<>>
    /\ result = <<>>
    /\ filters = NoFilters
    /\ swapped = <<>>
    /\ row = NoRow
    /\ produced = <<>>
    /\ crReservations = <<>>
    /\ crEventRows = <<>>
    /\ tsEvents = <<>>
    /\ tsLeads = <<>>
    /\ all = <<>>
    /\ output = <<>>
    /\ thrown = FALSE

DetectConflicts ==
    /\ pc = "input"
    /\ result' = detectConflicts(events)
    /\ eventsAfter' = ArgumentAfterDetect(events)
    /\ pc' = "detected"
    /\ UNCHANGED <<shellVars, syncVars, events, filters, swapped, row, produced, crReservations, crEventRows, tsEvents, tsLeads, all, output, thrown>>

NextDetect == DetectConflicts

SpecDetect == InitDetect /\ [][NextDetect]_vars

(***************************************************************************)
(* The filter of buildCalendarEvents, calendar-transforms.ts:401-406, and  *)
(* CalendarFilters, calendar.ts:162-172.                                   *)
(***************************************************************************)
\* calendar.ts:168-172
DEFAULT_FILTERS == [present |-> TRUE, sources |-> <<"courtreserve", "courtreserve_event", "tripleseat_event", "tripleseat_lead">>, statuses |-> <<"confirmed", "tentative", "prospect">>, courtIds |-> <<>>]

\* The predicate without the length test of line 404
PassesFiltersCourtRequired(e, f) ==
    /\ Includes(f.sources, e.source)
    /\ Includes(f.statuses, e.status)
    /\ SomeIncluded(e.courtMappingIds, f.courtIds)

\* lines 402-405: the predicate of withConflicts.filter
PassesFilters(e, f) ==
    /\ Includes(f.sources, e.source)
    /\ Includes(f.statuses, e.status)
    /\ (Len(f.courtIds) = 0 \/ SomeIncluded(e.courtMappingIds, f.courtIds))

\* lines 401-406
ApplyFilters(evs, f) == SelectSeq(evs, LAMBDA e : PassesFilters(e, f))

\* Filters drawn by the specifications: every combination of all or the
\* CourtReserve sources, the default or the confirmed-only statuses, any or one court
FilterChoices == {[present |-> TRUE, sources |-> so, statuses |-> st, courtIds |-> co] : so \in {DEFAULT_FILTERS.sources, <<"courtreserve", "courtreserve_event">>}, st \in {DEFAULT_FILTERS.statuses, <<"confirmed">>}, co \in {<<>>, <<"court-4">>}}

(***************************************************************************)
(* SpecOrder: detection and filtering composed in the order of             *)
(* buildCalendarEvents (lines 396-406) and in the swapped order, on events *)
(* as the transformers leave them (hasConflict false).                     *)
(***************************************************************************)
FreshPool == {e \in EventPool : ~e.hasConflict}

InitOrder ==
    /\ pc = "input"
    /\ ShellUnused
    /\ SyncUnused
    /\ \E n \in 0..MaxEvents : events \in [1..n -> FreshPool]
    /\ filters \in FilterChoices
    /\ eventsAfter = <<>>
    /\ result = <<>>
    /\ swapped = <<>>
    /\ row = NoRow
    /\ produced = <<>>
    /\ crReservations = <<>>
    /\ crEventRows = <<>>
    /\ tsEvents = <<>>
    /\ tsLeads = <<>>
    /\ all = <<>>
    /\ output = <<>>
    /\ thrown = FALSE

ComposeBothOrders ==
    /\ pc = "input"
    /\ result' = ApplyFilters(detectConflicts(events), filters)
    /\ swapped' = detectConflicts(ApplyFilters(events, filters))
    /\ pc' = "composed"
    /\ UNCHANGED <<shellVars, syncVars, events, eventsAfter, filters, row, produced, crReservations, crEventRows, tsEvents, tsLeads, all, output, thrown>>

NextOrder == ComposeBothOrders

SpecOrder == InitOrder /\ [][NextOrder]_vars

(***************************************************************************)
(* SpecTransform: one raw row of any of the four shapes (calendar.ts:      *)
(* 26-92) through its transformer, against a table of court mappings       *)
(* (calendar.ts:16-24).                                                    *)
(***************************************************************************)
CourtMappingTable == << [id |-> "court-3", court_number |-> 3, tripleseat_room_id |-> Some(103)], [id |-> "court-4", court_number |-> 4, tripleseat_room_id |-> Some(104)], [id |-> "court-5", court_number |-> 5, tripleseat_room_id |-> Null] >>

\* hh and mm of the local strings drawn
ClockChoices == {<<0, 0>>, <<9, 30>>, <<12, 0>>, <<13, 0>>, <<13, 30>>, <<23, 30>>}

ReservationStrings == {NullString} \cup {ClocklessString(d) : d \in Dates} \cup {LocalString(d, c[1], c[2], "") : d \in Dates, c \in ClockChoices}

ProgramStrings == {NullString} \cup {ClocklessString(d) : d \in Dates} \cup {LocalString(d, c[1], c[2], z) : d \in Dates, c \in ClockChoices, z \in {"", "Z", "+00:00", "-05:00"}}

\* 03:00Z, 06:30Z, 07:30Z, 18:00Z and 19:00Z of 2026-03-07 and 2026-03-08
UtcStrings == {NullUtcString, UnparseableUtcString} \cup {UtcString(d, m) : d \in {1, 2}, m \in {180, 390, 450, 1080, 1140}}

\* null, "", "Active", "Cancelled", "CANCELED"
ReservationStatuses == {Null, Some(<<>>), Some(<<"A", "c", "t", "i", "v", "e">>), Some(<<"C", "a", "n", "c", "e", "l", "l", "e", "d">>), Some(<<"C", "A", "N", "C", "E", "L", "E", "D">>)}

\* null, "definite", "TENTATIVE", "prospect", "cancelled", "lost", "hold"
VenueStatuses == {Null, Some(<<"d", "e", "f", "i", "n", "i", "t", "e">>), Some(<<"T", "E", "N", "T", "A", "T", "I", "V", "E">>), Some(<<"p", "r", "o", "s", "p", "e", "c", "t">>), Some(<<"c", "a", "n", "c", "e", "l", "l", "e", "d">>), Some(<<"l", "o", "s", "t">>), Some(<<"h", "o", "l", "d">>)}

RoomIdLists == {Null, Some(<<>>), Some(<<103>>), Some(<<103, 104>>), Some(<<999, 104>>), Some(<<103, 103>>)}

\* calendar.ts:26-41
CRReservation(start, end, date, court, status) ==
    [ kind |-> "reservation", id |-> "res-row", courtreserve_reservation_id |-> <<"7", "0", "0", "1">>,
      court_mapping_id |-> court, reservation_date |-> date, start_time |-> start, end_time |-> end, status |-> status ]

\* calendar.ts:43-61
CREvent(start, end, canceled, courts) ==
    [ kind |-> "program", id |-> "prog-row", courtreserve_event_id |-> 8001,
      start_datetime |-> start, end_datetime |-> end, court_mapping_ids |-> courts, is_canceled |-> canceled ]

\* calendar.ts:63-77
TSEvent(start, end, date, rooms, status) ==
    [ kind |-> "venue_event", id |-> "ev-row", tripleseat_event_id |-> 9001,
      status |-> status, event_date |-> date, event_start |-> start, event_end |-> end, room_ids |-> rooms ]

\* calendar.ts:79-92
TSLead(start, end, date, rooms) ==
    [ kind |-> "lead", id |-> "lead-row", tripleseat_lead_id |-> 9501,
      desired_date |-> date, desired_start |-> start, desired_end |-> end, room_ids |-> rooms ]

ReservationRows == {CRReservation(s, e, d, c, st) : s \in ReservationStrings, e \in ReservationStrings, d \in {Null, Some("2026-03-07")}, c \in {Null, Some("court-3"), Some("court-9")}, st \in ReservationStatuses}

ProgramRows == {CREvent(s, e, x, c) : s \in ProgramStrings, e \in ProgramStrings, x \in BOOLEAN, c \in {Null, Some(<<>>), Some(<<"court-3">>), Some(<<"court-3", "court-4">>)}}

VenueEventRows == {TSEvent(s, e, d, r, st) : s \in UtcStrings, e \in UtcStrings, d \in {Null, Some("2026-03-07")}, r \in RoomIdLists, st \in VenueStatuses}

LeadRows == {TSLead(s, e, d, r) : s \in UtcStrings, e \in UtcStrings, d \in {Null, Some("2026-03-07")}, r \in RoomIdLists}

InitTransform ==
    /\ pc = "input"
    /\ ShellUnused
    /\ SyncUnused
    /\ row \in ReservationRows \cup ProgramRows \cup VenueEventRows \cup LeadRows
    /\ produced = <<>>
    /\ thrown = FALSE
    /\ events = <<>>
    /\ eventsAfter = <<>>
    /\ result = <<>>
    /\ filters = NoFilters
    /\ swapped = <<>>
    /\ crReservations = <<>>
    /\ crEventRows = <<>>
    /\ tsEvents = <<>>
    /\ tsLeads = <<>>
    /\ all = <<>>
    /\ output = <<>>

Transformed(outcome) ==
    /\ \E o \in {outcome} : produced' = o.out /\ thrown' = o.thrown
    /\ pc' = "transformed"
    /\ UNCHANGED <<shellVars, syncVars, events, eventsAfter, result, filters, swapped, row, crReservations, crEventRows, tsEvents, tsLeads, all, output>>

TransformCRReservation ==
    /\ pc = "input"
    /\ row.kind = "reservation"
    /\ Transformed(transformCRReservation(row, CourtMappingTable))

TransformCREvent ==
    /\ pc = "input"
    /\ row.kind = "program"
    /\ Transformed(transformCREvent(row, CourtMappingTable))

TransformTSEvent ==
    /\ pc = "input"
    /\ row.kind = "venue_event"
    /\ Transformed(transformTSEvent(row, CourtMappingTable))

TransformTSLead ==
    /\ pc = "input"
    /\ row.kind = "lead"
    /\ Transformed(transformTSLead(row, CourtMappingTable))

NextTransform == TransformCRReservation \/ TransformCREvent \/ TransformTSEvent \/ TransformTSLead

SpecTransform == InitTransform /\ [][NextTransform]_vars

(***************************************************************************)
(* SpecStatus: mapCRStatus and mapTSEventStatus on one raw status: null,   *)
(* or a word in one of four letter casings, alone or with a leading space  *)
(* or a trailing letter.                                                   *)
(***************************************************************************)
StatusWords ==
    [ definite  |-> <<"d", "e", "f", "i", "n", "i", "t", "e">>,
      tentative |-> <<"t", "e", "n", "t", "a", "t", "i", "v", "e">>,
      prospect  |-> <<"p", "r", "o", "s", "p", "e", "c", "t">>,
      cancelled |-> <<"c", "a", "n", "c", "e", "l", "l", "e", "d">>,
      lost      |-> <<"l", "o", "s", "t">>,
      canceled  |-> <<"c", "a", "n", "c", "e", "l", "e", "d">>,
      cancel    |-> <<"c", "a", "n", "c", "e", "l">>,
      active    |-> <<"a", "c", "t", "i", "v", "e">>,
      hold      |-> <<"h", "o", "l", "d">>,
      empty     |-> <<>> ]

Casings == {"lower", "upper", "capital", "mixed"}

\* the letters of a lower-case word in a casing
Cased(w, casing) ==
    [k \in 1..Len(w) |->
        IF casing = "upper" \/ (casing = "capital" /\ k = 1) \/ (casing = "mixed" /\ k % 2 = 0)
        THEN UpperLetters[LetterIndex(LowerLetters, w[k])]
        ELSE w[k]]

\* a raw status with the parts it is written from
RawStatus(word, casing, prefix, suffix) ==
    [ kind |-> "status", word |-> word, casing |-> casing, prefix |-> prefix, suffix |-> suffix,
      raw |-> Some(prefix \o Cased(StatusWords[word], casing) \o suffix) ]

NullStatus == [kind |-> "status", word |-> "null", casing |-> "lower", prefix |-> <<>>, suffix |-> <<>>, raw |-> Null]

RawStatuses ==
    {NullStatus} \cup {RawStatus(w, c, pre, suf) : w \in DOMAIN StatusWords, c \in Casings, pre \in {<<>>, <<" ">>}, suf \in {<<>>, <<"s">>}}

InitStatus ==
    /\ pc = "input"
    /\ ShellUnused
    /\ SyncUnused
    /\ row \in RawStatuses
    /\ produced = <<>>
    /\ events = <<>>
    /\ eventsAfter = <<>>
    /\ result = <<>>
    /\ filters = NoFilters
    /\ swapped = <<>>
    /\ crReservations = <<>>
    /\ crEventRows = <<>>
    /\ tsEvents = <<>>
    /\ tsLeads = <<>>
    /\ all = <<>>
    /\ output = <<>>
    /\ thrown = FALSE

MapCRStatus ==
    /\ pc = "input"
    /\ produced' = <<mapCRStatus(row.raw)>>
    /\ pc' = "mapped_reservation"
    /\ UNCHANGED <<shellVars, syncVars, events, eventsAfter, result, filters, swapped, row, crReservations, crEventRows, tsEvents, tsLeads, all, output, thrown>>

MapTSEventStatus ==
    /\ pc = "input"
    /\ produced' = <<mapTSEventStatus(row.raw)>>
    /\ pc' = "mapped_venue_event"
    /\ UNCHANGED <<shellVars, syncVars, events, eventsAfter, result, filters, swapped, row, crReservations, crEventRows, tsEvents, tsLeads, all, output, thrown>>

NextStatus == MapCRStatus \/ MapTSEventStatus

SpecStatus == InitStatus /\ [][NextStatus]_vars

(***************************************************************************)
(* SpecClock: toMinutes on the 24-hour text and on the 12-hour text of a   *)
(* clock reading, and on localToHHMM of a local string with that reading.  *)
(***************************************************************************)
ClockReadings == {[kind |-> "clock", h |-> h, m |-> m] : h \in 0..23, m \in 0..59}

\* "HH:MM"
Text24(reading) == ClockText(reading.h, reading.m, "")

\* "h:mm AM" / "h:mm PM", 12 for the hours 0 and 12
Text12(reading) ==
    ClockText(IF reading.h % 12 = 0 THEN 12 ELSE reading.h % 12, reading.m, IF reading.h < 12 THEN "AM" ELSE "PM")

InitClock ==
    /\ pc = "input"
    /\ ShellUnused
    /\ SyncUnused
    /\ row \in ClockReadings
    /\ produced = <<>>
    /\ events = <<>>
    /\ eventsAfter = <<>>
    /\ result = <<>>
    /\ filters = NoFilters
    /\ swapped = <<>>
    /\ crReservations = <<>>
    /\ crEventRows = <<>>
    /\ tsEvents = <<>>
    /\ tsLeads = <<>>
    /\ all = <<>>
    /\ output = <<>>
    /\ thrown = FALSE

Converted(minutes, done) ==
    /\ produced' = <<minutes>>
    /\ pc' = done
    /\ UNCHANGED <<shellVars, syncVars, events, eventsAfter, result, filters, swapped, row, crReservations, crEventRows, tsEvents, tsLeads, all, output, thrown>>

ToMinutes24 ==
    /\ pc = "input"
    /\ Converted(toMinutes(Text24(row)), "minutes_of_24h")

ToMinutes12 ==
    /\ pc = "input"
    /\ Converted(toMinutes(Text12(row)), "minutes_of_12h")

ToMinutesOfLocal ==
    /\ pc = "input"
    /\ \E date \in Dates : Converted(toMinutes(localToHHMM(LocalString(date, row.h, row.m, ""))), "minutes_of_local")

NextClock == ToMinutes24 \/ ToMinutes12 \/ ToMinutesOfLocal

SpecClock == InitClock /\ [][NextClock]_vars

(***************************************************************************)
(* buildCalendarEvents, calendar-transforms.ts:368-407.                    *)
(***************************************************************************)
\* lines 376-390: .filter(e => e !== null) over the mapped rows; an exception
\* of one row leaves the map
\* KeepEvents walking the rows from the last to the first
KeepEventsReversed(outcomes) ==
    [ thrown |-> \E k \in 1..Len(outcomes) : outcomes[k].thrown,
      out    |-> Flatten([k \in 1..Len(outcomes) |-> outcomes[Len(outcomes) + 1 - k].out]) ]

KeepEvents(outcomes) ==
    [ thrown |-> \E k \in 1..Len(outcomes) : outcomes[k].thrown,
      out    |-> Flatten([k \in 1..Len(outcomes) |-> outcomes[k].out]) ]

\* Filtering before detection: the two steps of lines 396-406 swapped
FilterThenAnnotate(allEvents, f) ==
    IF ~f.present THEN detectConflicts(allEvents)
    ELSE detectConflicts(ApplyFilters(allEvents, f))

\* lines 396-406: detectConflicts on the full list, then the optional filter
AnnotateAndFilter(allEvents, f) ==
    IF ~f.present THEN detectConflicts(allEvents)
    ELSE ApplyFilters(detectConflicts(allEvents), f)

\* lines 368-407: [thrown, all, returned]
buildCalendarEvents(reservations, eventRows, venueEvents, leads, courtMappings, f) ==
    LET crReservationEvents == KeepEvents([k \in 1..Len(reservations) |-> transformCRReservation(reservations[k], courtMappings)])
        crProgramEvents     == KeepEvents([k \in 1..Len(eventRows) |-> transformCREvent(eventRows[k], courtMappings)])
        tsEventsMapped      == KeepEvents([k \in 1..Len(venueEvents) |-> transformTSEvent(venueEvents[k], courtMappings)])
        tsLeadsMapped       == KeepEvents([k \in 1..Len(leads) |-> transformTSLead(leads[k], courtMappings)])
        allEvents           == crReservationEvents.out \o crProgramEvents.out \o tsEventsMapped.out \o tsLeadsMapped.out
    IN  IF crReservationEvents.thrown \/ crProgramEvents.thrown \/ tsEventsMapped.thrown \/ tsLeadsMapped.thrown
        THEN [thrown |-> TRUE, all |-> <<>>, returned |-> <<>>]
        ELSE [thrown |-> FALSE, all |-> allEvents, returned |-> AnnotateAndFilter(allEvents, f)]

(***************************************************************************)
(* Spec: buildCalendarEvents on up to MaxReservations reservation rows and *)
(* up to MaxOtherRows rows of each other shape, with or without filters.   *)
(***************************************************************************)
MaxReservations == 2

MaxOtherRows == 1

Active == Some(<<"A", "c", "t", "i", "v", "e">>)

Cancelled == Some(<<"C", "a", "n", "c", "e", "l", "l", "e", "d">>)

\* reservations of 2026-03-07 from 12:00 or 13:00 to 13:00 or 13:30
BatchReservations == {CRReservation(LocalString("2026-03-07", s[1], s[2], ""), LocalString("2026-03-07", e[1], e[2], ""), Some("2026-03-07"), Some(c), st) : s \in {<<12, 0>>, <<13, 0>>}, e \in {<<13, 0>>, <<13, 30>>}, c \in {"court-3", "court-4"}, st \in {Active, Cancelled}}

\* programs of 2026-03-07, 12:00 to 13:30
BatchPrograms == {CREvent(LocalString("2026-03-07", 12, 0, "+00:00"), LocalString("2026-03-07", 13, 30, "+00:00"), x, Some(c)) : x \in BOOLEAN, c \in {<<"court-3">>, <<"court-3", "court-4">>}}

\* venue events ending 19:00Z (14:00 local) on 2026-03-07, starting 18:00Z, at an
\* unparseable time or at none
BatchVenueEvents == {TSEvent(s, UtcString(1, 1140), Null, Some(<<103>>), st) : s \in {UtcString(1, 1080), UnparseableUtcString, NullUtcString}, st \in {Some(<<"d", "e", "f", "i", "n", "i", "t", "e">>), Some(<<"p", "r", "o", "s", "p", "e", "c", "t">>)}}

BatchLeads == {TSLead(s, UtcString(1, 1140), Null, r) : s \in {UtcString(1, 1080), UnparseableUtcString}, r \in {Some(<<103>>), Some(<<999, 104>>), Some(<<999>>)}}

Init ==
    /\ pc = "input"
    /\ ShellUnused
    /\ SyncUnused
    /\ \E n \in 0..MaxReservations : crReservations \in [1..n -> BatchReservations]
    /\ \E n \in 0..MaxOtherRows : crEventRows \in [1..n -> BatchPrograms]
    /\ \E n \in 0..MaxOtherRows : tsEvents \in [1..n -> BatchVenueEvents]
    /\ \E n \in 0..MaxOtherRows : tsLeads \in [1..n -> BatchLeads]
    /\ filters \in {NoFilters} \cup FilterChoices
    /\ all = <<>>
    /\ output = <<>>
    /\ thrown = FALSE
    /\ events = <<>>
    /\ eventsAfter = <<>>
    /\ result = <<>>
    /\ swapped = <<>>
    /\ row = NoRow
    /\ produced = <<>>

BuildCalendarEvents ==
    /\ pc = "input"
    /\ \E built \in {buildCalendarEvents(crReservations, crEventRows, tsEvents, tsLeads, CourtMappingTable, filters)} :
           /\ all' = built.all
           /\ output' = built.returned
           /\ thrown' = built.thrown
    /\ pc' = "built"
    /\ UNCHANGED <<shellVars, syncVars, events, eventsAfter, result, filters, swapped, row, produced, crReservations, crEventRows, tsEvents, tsLeads>>

Next == BuildCalendarEvents

Spec == Init /\ [][Next]_vars

(***************************************************************************)
(* SpecIdentity: buildCalendarEvents on at most one row of each shape,     *)
(* the reservation's vendor id drawn from texts of digits and other texts  *)
(* (courtreserve_reservation_id is a string, calendar.ts:29).              *)
(***************************************************************************)
NoonStart == LocalString("2026-03-07", 12, 0, "")

\* "7001", "8001", "event-8001", "event-8001-2026-03-07T12:00:00", "lead-9501"
ReservationIds ==
    { <<"7", "0", "0", "1">>,
      <<"8", "0", "0", "1">>,
      <<"e", "v", "e", "n", "t", "-", "8", "0", "0", "1">>,
      <<"e", "v", "e", "n", "t", "-", "8", "0", "0", "1", "-">> \o LocalText(NoonStart),
      <<"l", "e", "a", "d", "-", "9", "5", "0", "1">> }

IdentityReservations == {[CRReservation(NoonStart, LocalString("2026-03-07", 13, 0, ""), Some("2026-03-07"), Some("court-3"), Active) EXCEPT !.courtreserve_reservation_id = x] : x \in ReservationIds}

IdentityPrograms == {CREvent(LocalString("2026-03-07", h, 0, z), LocalString("2026-03-07", 13, 30, z), FALSE, Some(<<"court-4">>)) : h \in {12, 13}, z \in {"", "+00:00"}}

IdentityVenueEvents == {TSEvent(UtcString(1, 1080), UtcString(1, 1140), Null, r, Some(<<"d", "e", "f", "i", "n", "i", "t", "e">>)) : r \in {Some(<<103>>), Some(<<104>>)}}

IdentityLeads == {TSLead(UtcString(1, 1080), UtcString(1, 1140), Null, r) : r \in {Some(<<103>>), Some(<<104>>)}}

InitIdentity ==
    /\ pc = "input"
    /\ ShellUnused
    /\ SyncUnused
    /\ \E n \in 0..1 : crReservations \in [1..n -> IdentityReservations]
    /\ \E n \in 0..1 : crEventRows \in [1..n -> IdentityPrograms]
    /\ \E n \in 0..1 : tsEvents \in [1..n -> IdentityVenueEvents]
    /\ \E n \in 0..1 : tsLeads \in [1..n -> IdentityLeads]
    /\ filters \in {NoFilters, DEFAULT_FILTERS}
    /\ all = <<>>
    /\ output = <<>>
    /\ thrown = FALSE
    /\ events = <<>>
    /\ eventsAfter = <<>>
    /\ result = <<>>
    /\ swapped = <<>>
    /\ row = NoRow
    /\ produced = <<>>

SpecIdentity == InitIdentity /\ [][Next]_vars

(***************************************************************************)
(* The conflicts endpoint, app/api/conflicts/route.ts (GET): the events    *)
(* the pipeline returns under the endpoint's filters, the flagged ones     *)
(* grouped by date and first court, and the window of every group.         *)
(***************************************************************************)
\* lines 28-34: "h:mm AM" / "h:mm PM" of a minute of the day
minutesToAmPm(minutes) ==
    LET h == minutes \div 60
        m == minutes % 60
    IN  ClockText(IF h = 0 THEN 12 ELSE IF h > 12 THEN h - 12 ELSE h, m, IF h >= 12 THEN "PM" ELSE "AM")

\* lines 106-110
EndpointFilters == [present |-> TRUE, sources |-> <<"courtreserve", "tripleseat_event", "tripleseat_lead">>, statuses |-> <<"confirmed", "tentative", "prospect">>, courtIds |-> <<>>]

\* line 125: `${event.date}::${event.courtMappingIds[0] ?? 'unknown'}`
GroupKey(event) == <<event.date, IF Len(event.courtMappingIds) > 0 THEN event.courtMappingIds[1] ELSE "unknown">>

Max(S) == CHOOSE x \in S : \A y \in S : x >= y

\* the k-th smallest index of a set of indexes
NthIndex(S, k) == CHOOSE i \in S : Cardinality({j \in S : j <= i}) = k

\* lines 132-140: the window of one group
ConflictGroup(group) ==
    LET overlapStartMinutes == Max({group[i].startMinutes : i \in 1..Len(group)})
        overlapEndMinutes   == Min({group[i].endMinutes : i \in 1..Len(group)})
    IN  [ events         |-> group,
          overlapStart   |-> minutesToAmPm(overlapStartMinutes),
          overlapEnd     |-> minutesToAmPm(overlapEndMinutes),
          overlapMinutes |-> IF overlapEndMinutes - overlapStartMinutes > 0 THEN overlapEndMinutes - overlapStartMinutes ELSE 0 ]

\* lines 120-140: Object.values(grouped) lists the groups in the order their
\* keys were first inserted
ConflictGroups(allEvents) ==
    LET conflictingEvents == SelectSeq(allEvents, LAMBDA e : e.hasConflict)
        firsts == {i \in 1..Len(conflictingEvents) : \A j \in 1..(i - 1) : GroupKey(conflictingEvents[j]) # GroupKey(conflictingEvents[i])}
    IN  [k \in 1..Cardinality(firsts) |->
            ConflictGroup(SelectSeq(conflictingEvents, LAMBDA e : GroupKey(e) = GroupKey(conflictingEvents[NthIndex(firsts, k)])))]

(***************************************************************************)
(* SpecConflicts: the endpoint on up to MaxEvents events of the pool, as   *)
(* the transformers leave them.                                            *)
(***************************************************************************)
InitConflicts ==
    /\ pc = "input"
    /\ ShellUnused
    /\ SyncUnused
    /\ \E n \in 0..MaxEvents : events \in [1..n -> FreshPool]
    /\ filters = EndpointFilters
    /\ eventsAfter = <<>>
    /\ result = <<>>
    /\ swapped = <<>>
    /\ row = NoRow
    /\ produced = <<>>
    /\ crReservations = <<>>
    /\ crEventRows = <<>>
    /\ tsEvents = <<>>
    /\ tsLeads = <<>>
    /\ all = <<>>
    /\ output = <<>>
    /\ thrown = FALSE

GetConflicts ==
    /\ pc = "input"
    /\ \E allEvents \in {AnnotateAndFilter(events, filters)} :
           /\ result' = allEvents
           /\ output' = ConflictGroups(allEvents)
    /\ pc' = "grouped"
    /\ UNCHANGED <<shellVars, syncVars, events, eventsAfter, filters, swapped, row, produced, crReservations, crEventRows, tsEvents, tsLeads, all, thrown>>

NextConflicts == GetConflicts

SpecConflicts == InitConflicts /\ [][NextConflicts]_vars

(***************************************************************************)
(* CalendarShell, components/calendar/CalendarShell.tsx.                   *)
(* A date is its day number, day 0 a Monday.  A fetch under way is the     *)
(* request it sent; its response holds the dates and events the API        *)
(* returns for that request.  The state updates of startTransition are one *)
(* step, so isPending is false in every state and no button is disabled.   *)
(***************************************************************************)
\* most fetches started in one behaviour
MaxRequests == 3

\* the prop initialDate, also the day handleToday computes
InitialDate == 10

CalendarViewMode == {"day", "week", "agenda"}

\* app/api/calendar/route.ts lines 36-57: the anchor, or its week from Monday
getVisibleDates(anchor, mode) ==
    IF mode = "day" \/ mode = "agenda" THEN <<anchor>>
    ELSE [i \in 1..7 |-> anchor - (anchor % 7) + (i - 1)]

\* the events the API returns for the dates, one marker for each date
EventsOfDates(visibleDates) == [k \in 1..Len(visibleDates) |-> [date |-> visibleDates[k]]]

\* lines 61-66
navigateDate(date, mode, direction) == date + (IF mode = "week" THEN 7 ELSE 1) * direction

InitShell ==
    /\ pc = "mounted"
    /\ currentDate = InitialDate
    /\ viewMode = "day"
    /\ dates = getVisibleDates(InitialDate, "day")
    /\ events = EventsOfDates(getVisibleDates(InitialDate, "day"))
    /\ inFlight = {}
    /\ issued = 0
    /\ fetchFailed = FALSE
    /\ SyncUnused
    /\ eventsAfter = <<>>
    /\ result = <<>>
    /\ filters = NoFilters
    /\ swapped = <<>>
    /\ row = NoRow
    /\ produced = <<>>
    /\ crReservations = <<>>
    /\ crEventRows = <<>>
    /\ tsEvents = <<>>
    /\ tsLeads = <<>>
    /\ all = <<>>
    /\ output = <<>>
    /\ thrown = FALSE

\* lines 84-87: fetchCalendarData up to its await of fetch
StartFetch(date, mode) ==
    /\ issued < MaxRequests
    /\ issued' = issued + 1
    /\ inFlight' = inFlight \cup {[request |-> issued + 1, date |-> date, mode |-> mode]}
    /\ UNCHANGED <<pc, dates, events, fetchFailed, syncVars, eventsAfter, result, filters, swapped, row, produced, crReservations, crEventRows, tsEvents, tsLeads, all, output, thrown>>

\* lines 103-107
HandleNavigate(direction) ==
    /\ pc = "mounted"
    /\ \E newDate \in {navigateDate(currentDate, viewMode, direction)} :
           /\ currentDate' = newDate
           /\ StartFetch(newDate, viewMode)
    /\ UNCHANGED viewMode

\* lines 109-115
HandleToday ==
    /\ pc = "mounted"
    /\ currentDate' = InitialDate
    /\ StartFetch(InitialDate, viewMode)
    /\ UNCHANGED viewMode

\* lines 117-120
HandleViewMode(mode) ==
    /\ pc = "mounted"
    /\ viewMode' = mode
    /\ StartFetch(currentDate, mode)
    /\ UNCHANGED currentDate

\* lines 88-97: a response arrives with res.ok; the state is set from it
FetchResolves(fetch) ==
    /\ pc = "mounted"
    /\ fetch \in inFlight
    /\ inFlight' = inFlight \ {fetch}
    /\ dates' = getVisibleDates(fetch.date, fetch.mode)
    /\ events' = EventsOfDates(getVisibleDates(fetch.date, fetch.mode))
    /\ UNCHANGED <<pc, currentDate, viewMode, issued, fetchFailed, syncVars, eventsAfter, result, filters, swapped, row, produced, crReservations, crEventRows, tsEvents, tsLeads, all, output, thrown>>

\* lines 85-88, 98-100: the fetch rejects or res.ok is false; the error is logged
FetchFails(fetch) ==
    /\ pc = "mounted"
    /\ fetch \in inFlight
    /\ inFlight' = inFlight \ {fetch}
    /\ fetchFailed' = TRUE
    /\ UNCHANGED <<pc, currentDate, viewMode, dates, events, issued, syncVars, eventsAfter, result, filters, swapped, row, produced, crReservations, crEventRows, tsEvents, tsLeads, all, output, thrown>>

NextShell ==
    \/ \E direction \in {1, -1} : HandleNavigate(direction)
    \/ HandleToday
    \/ \E mode \in CalendarViewMode : HandleViewMode(mode)
    \/ \E fetch \in inFlight : FetchResolves(fetch)
    \/ \E fetch \in inFlight : FetchFails(fetch)

SpecShell == InitShell /\ [][NextShell]_vars

(***************************************************************************)
(* The sync run, app/api/cron/sync/route.ts.                               *)
(* GET starts the four pulls together (Promise.all); each await is a point *)
(* where another pull may run, so one step is one request of one pull with *)
(* the log entry it writes.  sync_log is the table in insertion order, an  *)
(* entry reduced to the source and status columns, the two that select the *)
(* latest entry of a source and decide the status shown for it.            *)
(***************************************************************************)
\* most pages a Tripleseat endpoint serves in one run
MaxPages == 2

\* getDateWindow: 14 days back, 45 days ahead
WindowDaysBefore == 14
WindowDaysAfter == 45

\* a CourtReserve request covers at most 31 days
ChunkDays == 31

\* the chunks the while loop builds over the window
NumChunks == (WindowDaysBefore + WindowDaysAfter + ChunkDays - 1) \div ChunkDays

ChunkedPulls == {"pullCourtReserve", "pullCourtReserveEvents"}
PagedPulls == {"pullTripleseatEvents", "pullTripleseatLeads"}

\* the source each pull passes to logSync
SourceOf(pull) ==
    CASE pull = "pullCourtReserve" -> "courtreserve"
      [] pull = "pullCourtReserveEvents" -> "courtreserve_events"
      [] pull = "pullTripleseatEvents" -> "tripleseat"
      [] pull = "pullTripleseatLeads" -> "tripleseat"

\* fetchWithTimeout throws, or the response is not ok
FetchErrors == {"network error", "HTTP 500"}

logSync(log, source, status) == Append(log, [source |-> source, status |-> status])

\* components/settings/IntegrationStatusCard.tsx: the status shown for the
\* latest entry of a source (none: <<>>), older than 48 hours or not
deriveStatus(latestSync, olderThanThreshold) ==
    IF latestSync = <<>> THEN "pending"
    ELSE IF latestSync[1].status # "success" THEN "error"
    ELSE IF olderThanThreshold THEN "stale"
    ELSE "connected"

PipelineUnused ==
    /\ events = <<>>
    /\ eventsAfter = <<>>
    /\ result = <<>>
    /\ filters = NoFilters
    /\ swapped = <<>>
    /\ row = NoRow
    /\ produced = <<>>
    /\ crReservations = <<>>
    /\ crEventRows = <<>>
    /\ tsEvents = <<>>
    /\ tsLeads = <<>>
    /\ all = <<>>
    /\ output = <<>>
    /\ thrown = FALSE

InitSync ==
    /\ pc = "request"
    /\ chunkIndex = [pull \in ChunkedPulls |-> 0]
    /\ courtReservePc = [pull \in ChunkedPulls |-> "idle"]
    /\ page = [pull \in PagedPulls |-> 1]
    /\ tripleseatPc = [pull \in PagedPulls |-> "idle"]
    /\ sync_log = <<>>
    /\ failedSources = {}
    /\ ShellUnused
    /\ PipelineUnused

\* lines 809-813: the Authorization header is not the expected one
Unauthorized ==
    /\ pc = "request"
    /\ pc' = "unauthorized"
    /\ UNCHANGED <<syncVars, shellVars,
                 events, eventsAfter, result, filters, swapped, row, produced, crReservations, crEventRows, tsEvents, tsLeads, all, output, thrown>>

\* lines 820, 840-845: getCourtMappings throws
CourtMappingsFail ==
    /\ pc = "request"
    /\ pc' = "failed"
    /\ UNCHANGED <<syncVars, shellVars,
                 events, eventsAfter, result, filters, swapped, row, produced, crReservations, crEventRows, tsEvents, tsLeads, all, output, thrown>>

\* lines 818-827: the four pulls start
StartPulls ==
    /\ pc = "request"
    /\ pc' = "pulling"
    /\ courtReservePc' = [pull \in ChunkedPulls |-> "chunks"]
    /\ tripleseatPc' = [pull \in PagedPulls |-> "pages"]
    /\ UNCHANGED <<chunkIndex, page, sync_log, failedSources, shellVars,
                 events, eventsAfter, result, filters, swapped, row, produced, crReservations, crEventRows, tsEvents, tsLeads, all, output, thrown>>

\* lines 466-483, 576-593: the request of a chunk fails; logged, next chunk
ChunkFails(pull, error) ==
    /\ pc = "pulling"
    /\ courtReservePc[pull] = "chunks"
    /\ chunkIndex[pull] < NumChunks
    /\ error \in FetchErrors
    /\ sync_log' = logSync(sync_log, SourceOf(pull), "error")
    /\ failedSources' = failedSources \cup {SourceOf(pull)}
    /\ chunkIndex' = [chunkIndex EXCEPT ![pull] = @ + 1]
    /\ UNCHANGED <<pc, courtReservePc, page, tripleseatPc, shellVars,
                 events, eventsAfter, result, filters, swapped, row, produced, crReservations, crEventRows, tsEvents, tsLeads, all, output, thrown>>

\* lines 485-527, 595-647: the chunk is read, empty or upserted
ChunkRead(pull) ==
    /\ pc = "pulling"
    /\ courtReservePc[pull] = "chunks"
    /\ chunkIndex[pull] < NumChunks
    /\ chunkIndex' = [chunkIndex EXCEPT ![pull] = @ + 1]
    /\ UNCHANGED <<pc, courtReservePc, page, tripleseatPc, sync_log, failedSources, shellVars,
                 events, eventsAfter, result, filters, swapped, row, produced, crReservations, crEventRows, tsEvents, tsLeads, all, output, thrown>>

\* lines 530-532, 650-652: after the loop
ChunkedPullEnds(pull) ==
    /\ pc = "pulling"
    /\ courtReservePc[pull] = "chunks"
    /\ chunkIndex[pull] = NumChunks
    /\ sync_log' = logSync(sync_log, SourceOf(pull), "success")
    /\ courtReservePc' = [courtReservePc EXCEPT ![pull] = "done"]
    /\ UNCHANGED <<pc, chunkIndex, page, tripleseatPc, failedSources, shellVars,
                 events, eventsAfter, result, filters, swapped, row, produced, crReservations, crEventRows, tsEvents, tsLeads, all, output, thrown>>

\* lines 669-683, 740-754: the request of a page fails; logged, loop left
PageFails(pull, error) ==
    /\ pc = "pulling"
    /\ tripleseatPc[pull] = "pages"
    /\ error \in FetchErrors
    /\ sync_log' = logSync(sync_log, SourceOf(pull), "error")
    /\ failedSources' = failedSources \cup {SourceOf(pull)}
    /\ tripleseatPc' = [tripleseatPc EXCEPT ![pull] = "after_loop"]
    /\ UNCHANGED <<pc, chunkIndex, courtReservePc, page, shellVars,
                 events, eventsAfter, result, filters, swapped, row, produced, crReservations, crEventRows, tsEvents, tsLeads, all, output, thrown>>

\* lines 685-716, 756-795: the page is empty, or upserted and the last one
LastPage(pull) ==
    /\ pc = "pulling"
    /\ tripleseatPc[pull] = "pages"
    /\ tripleseatPc' = [tripleseatPc EXCEPT ![pull] = "after_loop"]
    /\ UNCHANGED <<pc, chunkIndex, courtReservePc, page, sync_log, failedSources, shellVars,
                 events, eventsAfter, result, filters, swapped, row, produced, crReservations, crEventRows, tsEvents, tsLeads, all, output, thrown>>

\* lines 685-718, 756-797: the page is upserted and another follows
NextPage(pull) ==
    /\ pc = "pulling"
    /\ tripleseatPc[pull] = "pages"
    /\ page[pull] < MaxPages
    /\ page' = [page EXCEPT ![pull] = @ + 1]
    /\ UNCHANGED <<pc, chunkIndex, courtReservePc, tripleseatPc, sync_log, failedSources, shellVars,
                 events, eventsAfter, result, filters, swapped, row, produced, crReservations, crEventRows, tsEvents, tsLeads, all, output, thrown>>

\* lines 721-723, 800-802: after the loop
PagedPullEnds(pull) ==
    /\ pc = "pulling"
    /\ tripleseatPc[pull] = "after_loop"
    /\ sync_log' = logSync(sync_log, SourceOf(pull), "success")
    /\ tripleseatPc' = [tripleseatPc EXCEPT ![pull] = "done"]
    /\ UNCHANGED <<pc, chunkIndex, courtReservePc, page, failedSources, shellVars,
                 events, eventsAfter, result, filters, swapped, row, produced, crReservations, crEventRows, tsEvents, tsLeads, all, output, thrown>>

\* lines 829-839: Promise.all has resolved
Respond ==
    /\ pc = "pulling"
    /\ \A pull \in ChunkedPulls : courtReservePc[pull] = "done"
    /\ \A pull \in PagedPulls : tripleseatPc[pull] = "done"
    /\ pc' = "responded"
    /\ UNCHANGED <<syncVars, shellVars,
                 events, eventsAfter, result, filters, swapped, row, produced, crReservations, crEventRows, tsEvents, tsLeads, all, output, thrown>>

NextSync ==
    \/ Unauthorized
    \/ CourtMappingsFail
    \/ StartPulls
    \/ \E pull \in ChunkedPulls, error \in FetchErrors : ChunkFails(pull, error)
    \/ \E pull \in ChunkedPulls : ChunkRead(pull)
    \/ \E pull \in ChunkedPulls : ChunkedPullEnds(pull)
    \/ \E pull \in PagedPulls, error \in FetchErrors : PageFails(pull, error)
    \/ \E pull \in PagedPulls : LastPage(pull)
    \/ \E pull \in PagedPulls : NextPage(pull)
    \/ \E pull \in PagedPulls : PagedPullEnds(pull)
    \/ Respond

SpecSync == InitSync /\ [][NextSync]_vars

(***************************************************************************)
(* Statements about detectConflicts, checked under SpecDetect.             *)
(***************************************************************************)
CourtSet(e) == {e.courtMappingIds[k] : k \in 1..Len(e.courtMappingIds)}

Provisional(e) == e.source = "tripleseat_lead" \/ e.status = "prospect"

\* The conflict relation as the specification words it
SpecifiedConflict(a, b) ==
    /\ a.date = b.date
    /\ ~Provisional(a) /\ ~Provisional(b)
    /\ CourtSet(a) \cap CourtSet(b) # {}
    /\ a.startMinutes < b.endMinutes
    /\ a.endMinutes > b.startMinutes

Touching(a, b) == a.endMinutes = b.startMinutes \/ b.endMinutes = a.startMinutes

Binding(e) == e.status \in {"confirmed", "tentative"}

\* C9: an event is flagged only if it is confirmed or tentative and overlaps, on
\* a shared court and the same date, another confirmed or tentative event; a
\* cancelled event is never flagged and never causes a flag.
C9_OnlyBindingEventsConflict ==
    pc = "detected" =>
        \A i \in 1..Len(result) :
            result[i].hasConflict =>
                /\ Binding(events[i])
                /\ \E j \in 1..Len(events) :
                      /\ j # i
                      /\ Binding(events[j])
                      /\ events[i].date = events[j].date
                      /\ CourtSet(events[i]) \cap CourtSet(events[j]) # {}
                      /\ events[i].startMinutes < events[j].endMinutes
                      /\ events[i].endMinutes > events[j].startMinutes

NonProvisional(evs) == SelectSeq(evs, LAMBDA e : ~Provisional(e))

\* C10: every lead and every prospect is unflagged, and the flags of the other
\* events are those detection gives with the leads and prospects removed.
C10_ProvisionalNeverConflicts ==
    pc = "detected" =>
        /\ \A i \in 1..Len(result) : Provisional(events[i]) => ~result[i].hasConflict
        /\ NonProvisional(result) = detectConflicts(NonProvisional(events))

\* A lead and a prospect each overlap a flagged event on its court and date.
C10_Witness ==
    /\ pc = "detected"
    /\ \E i, j \in 1..Len(events) :
          /\ i # j
          /\ Provisional(events[i]) /\ ~Provisional(events[j])
          /\ events[i].date = events[j].date
          /\ CourtSet(events[i]) \cap CourtSet(events[j]) # {}
          /\ events[i].startMinutes < events[j].endMinutes
          /\ events[i].endMinutes > events[j].startMinutes
          /\ ~result[i].hasConflict
          /\ result[j].hasConflict

\* C11: conflict symmetry: when the event at i is flagged because of its overlap
\* with the event at j, the event at j is flagged in the same result.
C11_ConflictSymmetry ==
    pc = "detected" =>
        \A i, j \in 1..Len(events) :
            (i # j /\ SpecifiedConflict(events[i], events[j]) /\ result[i].hasConflict) => result[j].hasConflict

\* A conflicting pair is flagged on both sides.
C11_Witness ==
    /\ pc = "detected"
    /\ \E i, j \in 1..Len(events) :
          /\ i < j
          /\ SpecifiedConflict(events[i], events[j])
          /\ result[i].hasConflict /\ result[j].hasConflict

Orderings(n) == {p \in [1..n -> 1..n] : \A i, j \in 1..n : i # j => p[i] # p[j]}

Permuted(evs, p) == [k \in 1..Len(evs) |-> evs[p[k]]]

\* C12: order-independence: detection on any permutation of the list flags the
\* same events as detection on the list (each event keeps its flag wherever the
\* permutation puts it, so the set of flagged ids is the same).
C12_OrderIndependence ==
    pc = "detected" =>
        \A p \in Orderings(Len(events)) :
            \E detected \in {detectConflicts(Permuted(events, p))} :
                \A k \in 1..Len(events) : detected[k].hasConflict = result[p[k]].hasConflict

\* A list of three events with a flagged and an unflagged one, whose order
\* can be changed.
C12_Witness ==
    /\ pc = "detected"
    /\ Len(events) = 3
    /\ events[1] # events[2] /\ events[2] # events[3] /\ events[1] # events[3]
    /\ \E i, j \in 1..3 : result[i].hasConflict /\ ~result[j].hasConflict

WithFlags(evs, flag) == [k \in 1..Len(evs) |-> [evs[k] EXCEPT !.hasConflict = flag]]

\* C13: detection on its own result gives the same flags, and the result does
\* not depend on the flags the events carry on input.
C13_RedetectionIdempotent ==
    pc = "detected" =>
        /\ detectConflicts(result) = result
        /\ detectConflicts(WithFlags(events, TRUE)) = result
        /\ detectConflicts(WithFlags(events, FALSE)) = result

\* An event arrives flagged and leaves unflagged, beside a flagged pair.
C13_Witness ==
    /\ pc = "detected"
    /\ \E i, j \in 1..Len(events) :
          /\ events[i].hasConflict /\ ~result[i].hasConflict
          /\ result[j].hasConflict

(***************************************************************************)
(* Statements about the order of detection and filtering (SpecOrder).      *)
(***************************************************************************)
\* C3: both orders keep the same events, and every event flagged when detection
\* runs after filtering is flagged when filtering runs after detection.  That
\* the two differ on some input is the reachability of C3_Witness.
C3_FilterFirstFlagsSubset ==
    pc = "composed" =>
        /\ Len(swapped) = Len(result)
        /\ \A k \in 1..Len(swapped) :
              /\ [swapped[k] EXCEPT !.hasConflict = FALSE] = [result[k] EXCEPT !.hasConflict = FALSE]
              /\ swapped[k].hasConflict => result[k].hasConflict

\* Filtering first yields strictly fewer flags: an event kept by the filter is
\* flagged by detection on the full list and unflagged by detection on the rest.
C3_Witness ==
    /\ pc = "composed"
    /\ \E k \in 1..Len(result) : result[k].hasConflict /\ ~swapped[k].hasConflict

(***************************************************************************)
(* Statements about the transformers (SpecTransform).                      *)
(***************************************************************************)
LocalRow(r) == r.kind \in {"reservation", "program"}

RowStart(r) ==
    CASE r.kind = "reservation" -> r.start_time
      [] r.kind = "program"     -> r.start_datetime
      [] r.kind = "venue_event" -> r.event_start
      [] r.kind = "lead"        -> r.desired_start

RowEnd(r) ==
    CASE r.kind = "reservation" -> r.end_time
      [] r.kind = "program"     -> r.end_datetime
      [] r.kind = "venue_event" -> r.event_end
      [] r.kind = "lead"        -> r.desired_end

\* the string names a time of day: a local string with clock digits, or a
\* parseable instant
Readable(r, str) == ~str.null /\ (IF LocalRow(r) THEN str.clock ELSE str.valid)

DayNumber(date) == CHOOSE d \in 0..4 : CivilDate(d) = date

\* the facility-local civil day and minute of day a readable string names
CivilDayOf(r, str) == IF LocalRow(r) THEN DayNumber(str.date) ELSE (str.day * 1440 + str.minute - EasternOffset(str)) \div 1440

WallMinutesOf(r, str) == IF LocalRow(r) THEN 60 * str.hh + str.mm ELSE (str.day * 1440 + str.minute - EasternOffset(str)) % 1440

\* C4: every event a transformer produces has endMinutes > startMinutes and
\* durationMinutes = endMinutes - startMinutes > 0, and a row whose end time of
\* day is at or before its start time of day yields no event.
C4_PositiveDuration ==
    pc = "transformed" =>
        /\ \A k \in 1..Len(produced) :
              /\ produced[k].endMinutes > produced[k].startMinutes
              /\ produced[k].durationMinutes = produced[k].endMinutes - produced[k].startMinutes
              /\ produced[k].durationMinutes > 0
        /\ (/\ Readable(row, RowStart(row))
            /\ Readable(row, RowEnd(row))
            /\ WallMinutesOf(row, RowEnd(row)) <= WallMinutesOf(row, RowStart(row))) => produced = <<>>

\* A venue event whose instants convert to a positive local span is produced.
C4_Witness ==
    /\ pc = "transformed"
    /\ row.kind = "venue_event"
    /\ produced # <<>>
    /\ produced[1].durationMinutes = WallMinutesOf(row, row.event_end) - WallMinutesOf(row, row.event_start)

\* C5: a row whose end falls on a later civil day than its start yields no
\* event, whatever the times of day.
C5_MidnightCrossingRejected ==
    (/\ pc = "transformed"
     /\ Readable(row, RowStart(row))
     /\ Readable(row, RowEnd(row))
     /\ CivilDayOf(row, RowEnd(row)) > CivilDayOf(row, RowStart(row))) => produced = <<>>

\* C7: a reservation or program row whose start string or end string holds no
\* HH:MM clock value yields no event.
C7_UnparseableTimeExcluded ==
    (/\ pc = "transformed"
     /\ LocalRow(row)
     /\ ~RowStart(row).null /\ ~RowEnd(row).null
     /\ (~RowStart(row).clock \/ ~RowEnd(row).clock)) => produced = <<>>

(***************************************************************************)
(* Statements about buildCalendarEvents (Spec).                            *)
(***************************************************************************)
SameButFlag(e, f) == [e EXCEPT !.hasConflict = FALSE] = [f EXCEPT !.hasConflict = FALSE]

\* an event of the full list has a conflicting peer at another index
ConflictsInFullSet(i) == \E j \in 1..Len(all) : j # i /\ SpecifiedConflict(all[i], all[j])

\* C2: the flag of every returned event is the one detection gives it on the
\* full unfiltered concatenation, also when its conflicting peer is filtered out.
C2_FlagsFromFullSet ==
    (pc = "built" /\ ~thrown) =>
        /\ Len(output) <= Len(all)
        /\ \A k \in 1..Len(output) :
              \E i \in 1..Len(all) : SameButFlag(output[k], all[i]) /\ (output[k].hasConflict <=> ConflictsInFullSet(i))
        /\ \A i \in 1..Len(all) :
              (~filters.present \/ PassesFilters(all[i], filters))
                  => \E k \in 1..Len(output) : SameButFlag(output[k], all[i]) /\ (output[k].hasConflict <=> ConflictsInFullSet(i))

\* A returned event is flagged while every event it conflicts with was removed
\* by the filter.
C2_Witness ==
    /\ pc = "built" /\ ~thrown /\ filters.present
    /\ \E i \in 1..Len(all) :
          /\ PassesFilters(all[i], filters)
          /\ ConflictsInFullSet(i)
          /\ \A j \in 1..Len(all) : (j # i /\ SpecifiedConflict(all[i], all[j])) => ~PassesFilters(all[j], filters)
          /\ \E k \in 1..Len(output) : SameButFlag(output[k], all[i]) /\ output[k].hasConflict

\* the events the rows of the batch yield, each row on its own
RowEvents ==
    ({transformCRReservation(crReservations[k], CourtMappingTable).out : k \in 1..Len(crReservations)}
        \cup {transformCREvent(crEventRows[k], CourtMappingTable).out : k \in 1..Len(crEventRows)}
        \cup {transformTSEvent(tsEvents[k], CourtMappingTable).out : k \in 1..Len(tsEvents)}
        \cup {transformTSLead(tsLeads[k], CourtMappingTable).out : k \in 1..Len(tsLeads)}) \ {<<>>}

\* C6: buildCalendarEvents never raises, and with no filter every row that its
\* transformer accepts has its event in the returned list.
C6_NeverRaises ==
    pc = "built" =>
        /\ ~thrown
        /\ ~filters.present =>
              \A ev \in RowEvents :
                  \E k \in 1..Len(output) : SameButFlag(output[k], ev[1])


Elements(arr) == {arr[k] : k \in 1..Len(arr)}

\* the full list with the flag the conflict relation gives every event
Annotated == [i \in 1..Len(all) |-> [all[i] EXCEPT !.hasConflict = ConflictsInFullSet(i)]]

\* the filter as the specification words it, on sets
Retained(e) ==
    /\ e.source \in Elements(filters.sources)
    /\ e.status \in Elements(filters.statuses)
    /\ (Elements(filters.courtIds) = {} \/ CourtSet(e) \cap Elements(filters.courtIds) # {})

\* the indexes of the full list the filter retains, and the k-th of them
RetainedIndexes == {i \in 1..Len(all) : Retained(all[i])}

NthOf(S, k) == CHOOSE i \in S : Cardinality({j \in S : j <= i}) = k

\* C14: with a filter, the returned list is the subsequence, in order, of the
\* annotated events whose source and status the filter lists and that occupy a
\* listed court or face an empty court list; every retained event is returned
\* unchanged with the flag it had before filtering.
C14_FilterIsSubsequence ==
    (pc = "built" /\ ~thrown /\ filters.present) =>
        /\ Len(output) = Cardinality(RetainedIndexes)
        /\ \A k \in 1..Len(output) : output[k] = Annotated[NthOf(RetainedIndexes, k)]

\* A filter with a court list retains two events or more and drops another;
\* a retained event is flagged.
C14_Witness ==
    /\ pc = "built" /\ ~thrown /\ filters.present
    /\ Len(filters.courtIds) > 0
    /\ Len(output) >= 2
    /\ Len(output) < Len(all)
    /\ \E k \in 1..Len(output) : output[k].hasConflict

\* every raw row in the order of line 392, and the outcome of its transformer
AllRows == crReservations \o crEventRows \o tsEvents \o tsLeads

RowOutcome(r) ==
    CASE r.kind = "reservation" -> transformCRReservation(r, CourtMappingTable).out
      [] r.kind = "program"     -> transformCREvent(r, CourtMappingTable).out
      [] r.kind = "venue_event" -> transformTSEvent(r, CourtMappingTable).out
      [] r.kind = "lead"        -> transformTSLead(r, CourtMappingTable).out

ProducingRows == {i \in 1..Len(AllRows) : RowOutcome(AllRows[i]) # <<>>}

RowEvent(i) == RowOutcome(AllRows[i])[1]

RowConflicts(i) == \E j \in ProducingRows : j # i /\ SpecifiedConflict(RowEvent(i), RowEvent(j))

\* C15: without a filter, the returned list holds the event of every row that
\* yields one, cancelled events and events without a court included, in the
\* order reservations, programs, venue events, leads and in row order within
\* each group, each with its flag from the full set.
C15_UnfilteredConcatenationOrder ==
    (pc = "built" /\ ~thrown /\ ~filters.present) =>
        /\ Len(output) = Cardinality(ProducingRows)
        /\ \A k \in 1..Len(output) :
              \E i \in {NthOf(ProducingRows, k)} :
                  output[k] = [RowEvent(i) EXCEPT !.hasConflict = RowConflicts(i)]

\* Five rows, one of each shape and a second reservation, all return an event:
\* the first reservation starts after the second, one event is cancelled and
\* the lead has no court.
C15_Witness ==
    /\ pc = "built" /\ ~thrown /\ ~filters.present
    /\ Len(crReservations) = 2 /\ Len(crEventRows) = 1 /\ Len(tsEvents) = 1 /\ Len(tsLeads) = 1
    /\ Len(output) = 5
    /\ output[1] # output[2]
    /\ output[1].startMinutes > output[2].startMinutes
    /\ \E k \in 1..5 : output[k].status = "cancelled"
    /\ output[5].courtMappingIds = <<>>

(***************************************************************************)
(* Statements about the status mappings (SpecStatus).                      *)
(***************************************************************************)
\* the raw status is one word and nothing else
WholeWord == row.raw # Null /\ row.prefix = <<>> /\ row.suffix = <<>>

\* C16: the venue-event mapping is total; a status that is, as a whole, the word
\* definite gives confirmed, tentative gives tentative, prospect gives prospect,
\* cancelled or lost gives cancelled; null and every other value, a longer
\* string holding one of the words included, gives prospect.
C16_VenueStatusExactMatch ==
    pc = "mapped_venue_event" =>
        /\ Len(produced) = 1
        /\ produced[1] \in CalendarEventStatus
        /\ (WholeWord /\ row.word = "definite") => produced[1] = "confirmed"
        /\ (WholeWord /\ row.word = "tentative") => produced[1] = "tentative"
        /\ (WholeWord /\ row.word = "prospect") => produced[1] = "prospect"
        /\ (WholeWord /\ row.word \in {"cancelled", "lost"}) => produced[1] = "cancelled"
        /\ (~WholeWord \/ row.word \notin {"definite", "tentative", "prospect", "cancelled", "lost"}) => produced[1] = "prospect"

\* The word lost alone maps to cancelled.
C16_Witness ==
    /\ pc = "mapped_venue_event"
    /\ WholeWord /\ row.word = "lost" /\ row.casing = "capital"
    /\ produced = <<"cancelled">>

HasCancellationKeyword == row.raw # Null /\ row.word \in {"cancel", "canceled", "cancelled"}

\* C17: the reservation mapping is total; a status that is null, empty or
\* without the cancellation keyword gives confirmed, one that holds the keyword
\* in any letter case gives cancelled, and none gives tentative or prospect.
C17_ReservationStatusMapping ==
    pc = "mapped_reservation" =>
        /\ Len(produced) = 1
        /\ produced[1] \in {"confirmed", "cancelled"}
        /\ produced[1] = "cancelled" <=> HasCancellationKeyword

\* A status holding the keyword in mixed case inside a longer string maps to cancelled.
C17_Witness ==
    /\ pc = "mapped_reservation"
    /\ row.word = "canceled" /\ row.casing = "mixed" /\ row.prefix # <<>>
    /\ produced = <<"cancelled">>

(***************************************************************************)
(* Statements about cancelled programs and court references (SpecTransform)*)
(***************************************************************************)
\* C18: a program row whose cancellation flag is set yields no event, whatever
\* its other fields, and every event of a program row has status confirmed.
C18_CanceledProgramYieldsNothing ==
    (pc = "transformed" /\ row.kind = "program") =>
        /\ row.is_canceled => (produced = <<>> /\ ~thrown)
        /\ produced # <<>> => produced[1].status = "confirmed"

\* A cancelled program with a readable, positive span and two courts yields nothing.
C18_Witness ==
    /\ pc = "transformed" /\ row.kind = "program"
    /\ row.is_canceled
    /\ Readable(row, row.start_datetime) /\ Readable(row, row.end_datetime)
    /\ WallMinutesOf(row, row.end_datetime) > WallMinutesOf(row, row.start_datetime)
    /\ row.court_mapping_ids = Some(<<"court-3", "court-4">>)
    /\ produced = <<>>

\* C19: isMultiCourt is true exactly when the event occupies more than one
\* distinct court; room ids that repeat one room give one court, and a
\* reservation event is never multi-court.
C19_MultiCourtIffDistinctCourts ==
    (pc = "transformed" /\ produced # <<>>) =>
        /\ produced[1].isMultiCourt <=> Cardinality(CourtSet(produced[1])) > 1
        /\ row.kind = "reservation" => ~produced[1].isMultiCourt

\* the court the mapping table gives a room, as a list of none or one id
CourtOfRoom(roomId) ==
    CASE roomId = 103 -> <<"court-3">>
      [] roomId = 104 -> <<"court-4">>
      [] OTHER        -> <<>>

RECURSIVE MatchedCourts(_)
MatchedCourts(roomIds) ==
    IF roomIds = <<>> THEN <<>> ELSE CourtOfRoom(Head(roomIds)) \o MatchedCourts(Tail(roomIds))

\* the ids of the mapping entries the row's references match
MatchedOfRow(r) ==
    CASE r.kind = "reservation" -> IF r.court_mapping_id \in {Some("court-3"), Some("court-4"), Some("court-5")} THEN r.court_mapping_id ELSE <<>>
      [] r.kind \in {"venue_event", "lead"} -> IF r.room_ids = Null THEN <<>> ELSE MatchedCourts(r.room_ids[1])

\* the row with its references replaced by ones the mapping table holds
Resolvable(r) ==
    CASE r.kind = "reservation" -> [r EXCEPT !.court_mapping_id = Some("court-3")]
      [] r.kind \in {"venue_event", "lead"} -> [r EXCEPT !.room_ids = Some(<<103>>)]

\* C20: a reference without a mapping entry never rejects the row: a
\* reservation, venue event or lead yields an event exactly when the same row
\* with resolvable references does, and the event's courtMappingIds holds the
\* ids of the matched mapping entries in room order, possibly none.
C20_UnresolvableReferenceKept ==
    (pc = "transformed" /\ row.kind \in {"reservation", "venue_event", "lead"}) =>
        /\ \E same \in {RowOutcome(Resolvable(row))} : (produced = <<>>) <=> (same = <<>>)
        /\ produced # <<>> => produced[1].courtMappingIds = MatchedOfRow(row)

\* A venue event with an unknown room before a known one keeps the known court.
C20_Witness ==
    /\ pc = "transformed" /\ row.kind = "venue_event"
    /\ row.room_ids = Some(<<999, 104>>)
    /\ produced # <<>>
    /\ produced[1].courtMappingIds = <<"court-4">>

(***************************************************************************)
(* Statements about event identity (SpecIdentity).                         *)
(***************************************************************************)
\* C21: in any output of buildCalendarEvents, two events that come from rows of
\* different source variants have different ids, whatever the vendor ids are.
C21_IdsDistinctAcrossSources ==
    (pc = "built" /\ ~thrown) =>
        \A i, j \in 1..Len(output) :
            output[i].source # output[j].source => output[i].id # output[j].id

(***************************************************************************)
(* Statements about dates and clock texts (SpecTransform).                 *)
(***************************************************************************)
\* C22: the date of every venue event and lead is the facility-local civil date
\* of its UTC start instant, whatever date field the raw row carries.
C22_DateIsLocalDateOfStart ==
    (pc = "transformed" /\ row.kind \in {"venue_event", "lead"} /\ produced # <<>>) =>
        produced[1].date = CivilDate(CivilDayOf(row, RowStart(row)))

\* C23: a program row uses the clock digits of its stored strings verbatim: a
\* start reading HH:MM, with any zone marker or none, gives startMinutes =
\* 60*HH + MM and the date part of the same string as date; the same for the
\* end; no timezone shift is applied.
C23_ProgramClockVerbatim ==
    (pc = "transformed" /\ row.kind = "program" /\ produced # <<>>) =>
        /\ row.start_datetime.clock =>
              /\ produced[1].startMinutes = 60 * row.start_datetime.hh + row.start_datetime.mm
              /\ produced[1].date = row.start_datetime.date
        /\ row.end_datetime.clock =>
              produced[1].endMinutes = 60 * row.end_datetime.hh + row.end_datetime.mm

\* A program stored with the offsets -05:00 and Z yields an event from 1:00 PM.
C23_Witness ==
    /\ pc = "transformed" /\ row.kind = "program" /\ produced # <<>>
    /\ row.start_datetime.clock /\ row.start_datetime.zone = "-05:00"
    /\ row.end_datetime.clock /\ row.end_datetime.zone = "Z"
    /\ row.start_datetime.hh = 13
    /\ produced[1].startMinutes = 780
    /\ produced[1].date = "2026-03-08"

\* C24: every event a transformer produces carries startTime and endTime as
\* 24-hour "HH:MM" texts whose 60*HH + MM are startMinutes and endMinutes.
C24_TimesAre24Hour ==
    (pc = "transformed" /\ produced # <<>>) =>
        /\ produced[1].startTime.period = ""
        /\ produced[1].endTime.period = ""
        /\ produced[1].startMinutes = 60 * produced[1].startTime.h + produced[1].startTime.m
        /\ produced[1].endMinutes = 60 * produced[1].endTime.h + produced[1].endTime.m

(***************************************************************************)
(* Statements about the minutes conversion (SpecClock).                    *)
(***************************************************************************)
\* C25: for every hour h of 0..23 and minute m of 0..59, toMinutes of the
\* 24-hour text, of the 12-hour text with AM or PM, and of localToHHMM of a
\* local string reading h:m, all give 60*h + m.
C25_MinutesFormsAgree ==
    pc \in {"minutes_of_24h", "minutes_of_12h", "minutes_of_local"} => produced = <<60 * row.h + row.m>>

\* 12:30 AM as a 12-hour text gives 30.
C25_Witness ==
    /\ pc = "minutes_of_12h"
    /\ row.h = 0 /\ row.m = 30
    /\ produced = <<30>>

(***************************************************************************)
(* Statements about daylight time (SpecTransform).                         *)
(***************************************************************************)
\* the instant 2026-03-08T07:00Z, 2:00 AM local, when the clocks go forward
ClocksForward == 2 * 1440 + 7 * 60

\* C26: a venue event starting on the clocks-forward date gets the local wall
\* clock of the offset in force at the instant: five hours behind UTC before
\* the transition, four hours from it on; 06:30Z gives 1:30 AM, 90 minutes.
C26_DaylightTimeOffset ==
    (pc = "transformed" /\ row.kind = "venue_event" /\ produced # <<>>) =>
        \E start \in {UtcMinutes(row.event_start)} :
            /\ start < ClocksForward => produced[1].startMinutes = (start - 5 * 60) % 1440
            /\ start >= ClocksForward => produced[1].startMinutes = (start - 4 * 60) % 1440
            /\ (row.event_start.day = 2 /\ row.event_start.minute = 390) =>
                  (produced[1].startMinutes = 90 /\ (row.event_date = Null => produced[1].date = "2026-03-08"))

\* A venue event from 06:30Z to 07:30Z of 2026-03-08 runs from 1:30 AM to
\* 3:30 AM local: its start before the transition, its end after it.
C26_Witness ==
    /\ pc = "transformed" /\ row.kind = "venue_event" /\ produced # <<>>
    /\ row.event_start = UtcString(2, 390) /\ row.event_end = UtcString(2, 450)
    /\ produced[1].startMinutes = 90 /\ produced[1].endMinutes = 210

(***************************************************************************)
(* Statements about the conflict groups (SpecConflicts).                   *)
(***************************************************************************)
\* the minute of the day a 12-hour clock text names
ReadClock(text) == 60 * ((text.h % 12) + (IF text.period = "PM" THEN 12 ELSE 0)) + text.m

LatestStart(group) == CHOOSE x \in {group[i].startMinutes : i \in 1..Len(group)} : \A i \in 1..Len(group) : group[i].startMinutes <= x

EarliestEnd(group) == CHOOSE x \in {group[i].endMinutes : i \in 1..Len(group)} : \A i \in 1..Len(group) : group[i].endMinutes >= x

C29_LatestRequestDisplayed ==
    (pc = "mounted" /\ issued > 0 /\ inFlight = {} /\ ~fetchFailed) =>
        /\ dates = getVisibleDates(currentDate, viewMode)
        /\ events = EventsOfDates(getVisibleDates(currentDate, viewMode))

(***************************************************************************)
(* Statements about the sync run (SpecSync).                               *)
(***************************************************************************)
\* the entries of the log written for the source, in order
EntriesOf(source) == SelectSeq(sync_log, LAMBDA entry : entry.source = source)

\* the latest entry of the source, <<>> when it has none
LatestEntry(source) ==
    IF EntriesOf(source) = <<>> THEN <<>>
    ELSE <<EntriesOf(source)[Len(EntriesOf(source))]>>

\* C30: when the run has ended, a source one of whose chunk or page
\* requests failed has an error entry as its last log entry; the last
\* entry of a source is a success entry only if none of its requests failed.
C30_LastEntryShowsFailure ==
    pc = "responded" =>
        \A source \in failedSources :
            /\ LatestEntry(source) # <<>>
            /\ LatestEntry(source)[1].status = "error"
            /\ \A olderThanThreshold \in BOOLEAN :
                   deriveStatus(LatestEntry(source), olderThanThreshold) = "error"
====
